---- MODULE Spec2Model ----
(***************************************************************************)
(* State-machine model of project_1.py ("Flying Bird Game").               *)
(*                                                                         *)
(* One step of the model is one iteration of the `while running` loop of   *)
(* game_loop: the events returned by pygame.event.get() are handled in     *)
(* order, then the game-logic block runs if the game is neither on the     *)
(* start screen nor over.  Drawing reads the state and changes nothing.    *)
(*                                                                         *)
(* Numbers.  pygame.Rect holds C ints; a float stored into a Rect          *)
(* attribute is converted with a C cast, i.e. truncated toward zero.       *)
(* Bird.velocity is a Python float that is always a multiple of 0.5; it is *)
(* held here as an integer number of half pixels per frame, so             *)
(* BIRD_GRAVITY (0.5) is 1 and BIRD_JUMP_STRENGTH (-8) is -16.             *)
(***************************************************************************)
EXTENDS Integers, Sequences, FiniteSets

\* ------------------------------------------------------------------ bounds
MaxEvents == 2          \* events returned by one pygame.event.get() call
MaxTicks == 455         \* game-logic frames explored in the first session
MaxReplayTicks == 40    \* game-logic frames explored in a session after a restart
MaxResets == 1          \* restarts explored

\* --------------------------------------------------------------- constants
SCREEN_WIDTH == 1000
SCREEN_HEIGHT == 600
GROUND_HEIGHT == 100
PIPE_GAP == 150
PIPE_WIDTH == 50
PIPE_SPEED == 3
BIRD_GRAVITY == 1
BIRD_JUMP_STRENGTH == -16
BIRD_SIZE == 30
pipe_spawn_interval == 90
MIN_PIPE_HEIGHT == 100

\* The values random.randint(100, SCREEN_HEIGHT - GROUND_HEIGHT - PIPE_GAP - 100)
\* of line 144 can return.
HeightRange ==
    MIN_PIPE_HEIGHT .. (SCREEN_HEIGHT - GROUND_HEIGHT - PIPE_GAP - MIN_PIPE_HEIGHT)

\* The gap tops random.randint may return that are explored (both ends of
\* the range of line 144).
PipeHeights == {MIN_PIPE_HEIGHT, SCREEN_HEIGHT - GROUND_HEIGHT - PIPE_GAP - MIN_PIPE_HEIGHT}
\* The player presses SPACE during play only in frames whose spawn timer is
\* one of these values.
JumpSlots == {0, 30, 45, 60}

Events == {"SPACE", "OTHER", "QUIT"}

VARIABLES
    bird,              \* [rect, velocity]
    pipes,             \* the list `pipes`
    score,
    game_over,
    start_screen,
    pipe_spawn_timer,
    running,
    \* history of the last loop iteration and of the session
    did,               \* the branches of the loop body the last iteration took
    removed,           \* the pipes pipes.remove() took out in the last iteration
    retired_passed,    \* pipes removed so far in this session whose passed is True
    nspawn,            \* pipes created so far in this session
    session_ticks,     \* game-logic frames run so far in this session
    resets             \* calls of reset_game() from the event handler

vars == <<bird, pipes, score, game_over, start_screen, pipe_spawn_timer, running,
          did, removed, retired_passed, nspawn, session_ticks, resets>>

\* ------------------------------------------------------------------- rects
Rect(x, y, w, h) == [x |-> x, y |-> y, w |-> w, h |-> h]
Top(r) == r.y
Bottom(r) == r.y + r.h
Left(r) == r.x
Right(r) == r.x + r.w

\* A float (given in halves) stored into a Rect attribute: truncated toward zero.
ToInt(halves) == IF halves >= 0 THEN halves \div 2 ELSE -((-halves) \div 2)

\* Mutant of colliderect: rectangles that touch along an edge collide too.
colliderect_Inclusive(a, b) ==
    /\ a.w # 0 /\ a.h # 0 /\ b.w # 0 /\ b.h # 0
    /\ a.x <= b.x + b.w
    /\ a.y <= b.y + b.h
    /\ a.x + a.w >= b.x
    /\ a.y + a.h >= b.y

\* pygame.Rect.colliderect: the rectangles share area; a pair that only
\* touches along an edge does not collide, nor does a rectangle of no area.
colliderect(a, b) ==
    /\ a.w # 0 /\ a.h # 0 /\ b.w # 0 /\ b.h # 0
    /\ a.x < b.x + b.w
    /\ a.y < b.y + b.h
    /\ a.x + a.w > b.x
    /\ a.y + a.h > b.y

\* -------------------------------------------------------------------- Bird
\* Mutant of Bird: the rectangle is placed by its top-left corner.
Bird_TopLeft ==
    [rect |-> Rect(SCREEN_WIDTH \div 4, SCREEN_HEIGHT \div 2, BIRD_SIZE, BIRD_SIZE),
     velocity |-> 0]

Bird ==
    [rect |-> Rect(SCREEN_WIDTH \div 4 - BIRD_SIZE \div 2,
                   SCREEN_HEIGHT \div 2 - BIRD_SIZE \div 2,
                   BIRD_SIZE, BIRD_SIZE),
     velocity |-> 0]

\* Mutant of jump: the jump strength is added to the velocity.
jump_Adds(b) == [b EXCEPT !.velocity = @ + BIRD_JUMP_STRENGTH]

jump(b) == [b EXCEPT !.velocity = BIRD_JUMP_STRENGTH]

\* Mutants of BirdUpdate: the ceiling stops the bird but leaves its velocity;
\* there is no ceiling.
BirdUpdate_KeepsVelocity(b) ==
    LET v == b.velocity + BIRD_GRAVITY
        y == ToInt(2 * b.rect.y + v)
    IN  IF y < 0
        THEN [rect |-> [b.rect EXCEPT !.y = 0], velocity |-> v]
        ELSE [rect |-> [b.rect EXCEPT !.y = y], velocity |-> v]
BirdUpdate_NoCeiling(b) ==
    LET v == b.velocity + BIRD_GRAVITY
        y == ToInt(2 * b.rect.y + v)
    IN  [rect |-> [b.rect EXCEPT !.y = y], velocity |-> v]

BirdUpdate(b) ==
    LET v == b.velocity + BIRD_GRAVITY
        y == ToInt(2 * b.rect.y + v)
    IN  IF y < 0
        THEN [rect |-> [b.rect EXCEPT !.y = 0], velocity |-> 0]
        ELSE [rect |-> [b.rect EXCEPT !.y = y], velocity |-> v]

\* -------------------------------------------------------------------- Pipe
\* Mutant of Pipe: the bottom pipe reaches the bottom of the screen, not the
\* ground.
Pipe_ToScreenBottom(x, height, id) ==
    [x |-> x, height |-> height, passed |-> FALSE,
     top_rect |-> Rect(x, 0, PIPE_WIDTH, height),
     bottom_rect |-> Rect(x, height + PIPE_GAP, PIPE_WIDTH,
                          SCREEN_HEIGHT - (height + PIPE_GAP)),
     id |-> id, age |-> 0]

\* id and age are history fields: the serial number of the pipe within its
\* session and the number of Pipe.update() calls it has had.
Pipe(x, height, id) ==
    [x |-> x, height |-> height, passed |-> FALSE,
     top_rect |-> Rect(x, 0, PIPE_WIDTH, height),
     bottom_rect |-> Rect(x, height + PIPE_GAP, PIPE_WIDTH,
                          SCREEN_HEIGHT - (height + PIPE_GAP) - GROUND_HEIGHT),
     id |-> id, age |-> 0]

PipeUpdate(p) ==
    LET x == p.x - PIPE_SPEED
    IN  [p EXCEPT !.x = x, !.top_rect.x = x, !.bottom_rect.x = x, !.age = p.age + 1]

\* Mutants of off_screen: the left edge, not the right one, is tested; the
\* comparison is not strict; no pipe ever counts as off screen.
off_screen_Never(p) == FALSE
off_screen_LeftEdge(p) == p.x < 0
off_screen_NotStrict(p) == p.x + PIPE_WIDTH <= 0

off_screen(p) == p.x + PIPE_WIDTH < 0

\* Mutants of Scores: the passed flag is not consulted; the pipe scores when
\* it leaves the screen.
Scores_IgnorePassed(p, b) == p.x + PIPE_WIDTH < b.rect.x
Scores_AtScreenEdge(p, b) == ~p.passed /\ p.x + PIPE_WIDTH < 0

\* The test of line 155.
Scores(p, b) == ~p.passed /\ p.x + PIPE_WIDTH < b.rect.x

\* -------------------------------------------------------------- reset_game
\* The four values reset_game() returns; the caller assigns them.
reset_game == [bird |-> Bird, pipes |-> <<>>, score |-> 0, game_over |-> FALSE]

\* ---------------------------------------------------------------- the loop
\* The local variables of game_loop (and the history) as one record.
Locals ==
    [bird |-> bird, pipes |-> pipes, score |-> score, game_over |-> game_over,
     start_screen |-> start_screen, pipe_spawn_timer |-> pipe_spawn_timer,
     running |-> running, did |-> {}, removed |-> <<>>,
     retired_passed |-> retired_passed, nspawn |-> nspawn,
     session_ticks |-> session_ticks, resets |-> resets]

\* Mutant of HandleEvent: a restart goes back to the start screen.
HandleEvent_ResetToStart(s, e) ==
    IF e = "QUIT" THEN [s EXCEPT !.running = FALSE]
    ELSE IF e # "SPACE" THEN s
    ELSE IF s.start_screen
         THEN [s EXCEPT !.start_screen = FALSE, !.did = @ \cup {"start"}]
    ELSE IF ~s.game_over
         THEN [s EXCEPT !.bird = jump(s.bird), !.did = @ \cup {"jump"}]
    ELSE LET r == [bird |-> Bird, pipes |-> <<>>, score |-> 0, game_over |-> FALSE]
         IN  [s EXCEPT !.bird = r.bird, !.pipes = r.pipes, !.score = r.score,
                       !.game_over = r.game_over, !.start_screen = TRUE,
                       !.did = @ \cup {"reset"},
                       !.retired_passed = 0, !.nspawn = 0, !.session_ticks = 0,
                       !.resets = @ + 1]

\* Mutant of HandleEvent: a restart does not assign the score.
HandleEvent_ResetKeepsScore(s, e) ==
    IF e = "QUIT" THEN [s EXCEPT !.running = FALSE]
    ELSE IF e # "SPACE" THEN s
    ELSE IF s.start_screen
         THEN [s EXCEPT !.start_screen = FALSE, !.did = @ \cup {"start"}]
    ELSE IF ~s.game_over
         THEN [s EXCEPT !.bird = jump(s.bird), !.did = @ \cup {"jump"}]
    ELSE LET r == [bird |-> Bird, pipes |-> <<>>, score |-> 0, game_over |-> FALSE]
         IN  [s EXCEPT !.bird = r.bird, !.pipes = r.pipes,
                       !.game_over = r.game_over, !.start_screen = FALSE,
                       !.did = @ \cup {"reset"},
                       !.retired_passed = 0, !.nspawn = 0, !.session_ticks = 0,
                       !.resets = @ + 1]

\* The body of `for event in pygame.event.get()` for one event.
HandleEvent(s, e) ==
    IF e = "QUIT" THEN [s EXCEPT !.running = FALSE]
    ELSE IF e # "SPACE" THEN s
    ELSE IF s.start_screen
         THEN [s EXCEPT !.start_screen = FALSE, !.did = @ \cup {"start"}]
    ELSE IF ~s.game_over
         THEN [s EXCEPT !.bird = jump(s.bird), !.did = @ \cup {"jump"}]
    ELSE LET r == reset_game
         IN  [s EXCEPT !.bird = r.bird, !.pipes = r.pipes, !.score = r.score,
                       !.game_over = r.game_over, !.start_screen = FALSE,
                       !.did = @ \cup {"reset"},
                       !.retired_passed = 0, !.nspawn = 0, !.session_ticks = 0,
                       !.resets = @ + 1]

RECURSIVE HandleEvents(_, _, _)
HandleEvents(s, evs, i) ==
    IF i > Len(evs) THEN s ELSE HandleEvents(HandleEvent(s, evs[i]), evs, i + 1)

\* Mutants of SpawnPipes: the comparison with the interval is strict; the new
\* pipe is put at the front of the list.
SpawnPipes_Strict(s, pipe_height) ==
    LET t == s.pipe_spawn_timer + 1
    IN  IF t > pipe_spawn_interval
        THEN [s EXCEPT !.pipes = Append(@, Pipe(SCREEN_WIDTH, pipe_height, s.nspawn + 1)),
                       !.pipe_spawn_timer = 0,
                       !.nspawn = @ + 1,
                       !.did = @ \cup {"spawn"}]
        ELSE [s EXCEPT !.pipe_spawn_timer = t]
SpawnPipes_AtFront(s, pipe_height) ==
    LET t == s.pipe_spawn_timer + 1
    IN  IF t >= pipe_spawn_interval
        THEN [s EXCEPT !.pipes = <<Pipe(SCREEN_WIDTH, pipe_height, s.nspawn + 1)>> \o @,
                       !.pipe_spawn_timer = 0,
                       !.nspawn = @ + 1,
                       !.did = @ \cup {"spawn"}]
        ELSE [s EXCEPT !.pipe_spawn_timer = t]

\* Lines 142-146: the spawn timer and the spawn.
SpawnPipes(s, pipe_height) ==
    LET t == s.pipe_spawn_timer + 1
    IN  IF t >= pipe_spawn_interval
        THEN [s EXCEPT !.pipes = Append(@, Pipe(SCREEN_WIDTH, pipe_height, s.nspawn + 1)),
                       !.pipe_spawn_timer = 0,
                       !.nspawn = @ + 1,
                       !.did = @ \cup {"spawn"}]
        ELSE [s EXCEPT !.pipe_spawn_timer = t]

\* One pass of the body of `for pipe in list(pipes)` (lines 150-157) for
\* copy[i]; the pipe objects of the copy are the objects of the list.
RECURSIVE UpdatePipes(_, _, _)
UpdatePipes(s, copy, i) ==
    IF i > Len(copy) THEN s
    ELSE
      LET id == copy[i].id
          p1 == PipeUpdate(copy[i])
          gone == off_screen(p1)
          scores == Scores(p1, s.bird)
          p2 == IF scores THEN [p1 EXCEPT !.passed = TRUE] ELSE p1
          Other(q) == q.id # id
          kept == IF gone THEN SelectSeq(s.pipes, Other)
                  ELSE [k \in 1..Len(s.pipes) |->
                          IF s.pipes[k].id = id THEN p2 ELSE s.pipes[k]]
          s1 == [s EXCEPT !.pipes = kept,
                          !.removed = IF gone THEN Append(@, p2) ELSE @,
                          !.retired_passed = IF gone /\ p2.passed THEN @ + 1 ELSE @,
                          !.score = IF scores THEN @ + 1 ELSE @,
                          !.did = IF scores THEN @ \cup {"score"} ELSE @]
      IN  UpdatePipes(s1, copy, i + 1)

\* Mutants of GroundCheck: the comparison is strict; the bird is not snapped;
\* the ground does not end the game.
GroundCheck_Never(s) == s
GroundCheck_Strict(s) ==
    IF Bottom(s.bird.rect) > SCREEN_HEIGHT - GROUND_HEIGHT
    THEN [s EXCEPT !.game_over = TRUE,
                   !.bird.rect.y = SCREEN_HEIGHT - GROUND_HEIGHT - s.bird.rect.h,
                   !.did = @ \cup {"ground"}]
    ELSE s
GroundCheck_NoSnap(s) ==
    IF Bottom(s.bird.rect) >= SCREEN_HEIGHT - GROUND_HEIGHT
    THEN [s EXCEPT !.game_over = TRUE, !.did = @ \cup {"ground"}]
    ELSE s

\* Lines 161-163: the bird hits the ground.
GroundCheck(s) ==
    IF Bottom(s.bird.rect) >= SCREEN_HEIGHT - GROUND_HEIGHT
    THEN [s EXCEPT !.game_over = TRUE,
                   !.bird.rect.y = SCREEN_HEIGHT - GROUND_HEIGHT - s.bird.rect.h,
                   !.did = @ \cup {"ground"}]
    ELSE s

\* Lines 166-168: the bird hits a pipe.
PipeCheck(s) ==
    IF \E k \in 1..Len(s.pipes) :
          \/ colliderect(s.bird.rect, s.pipes[k].top_rect)
          \/ colliderect(s.bird.rect, s.pipes[k].bottom_rect)
    THEN [s EXCEPT !.game_over = TRUE, !.did = @ \cup {"pipe"}]
    ELSE s

\* Lines 138-168: the game logic of one frame.
GameLogic(s, pipe_height) ==
    LET s1 == [s EXCEPT !.bird = BirdUpdate(s.bird),
                        !.session_ticks = @ + 1,
                        !.did = @ \cup {"tick"}]
        s2 == SpawnPipes(s1, pipe_height)
        s3 == UpdatePipes(s2, s2.pipes, 1)
        s4 == GroundCheck(s3)
    IN  PipeCheck(s4)

\* The whole of `for event in pygame.event.get()` (lines 125-135).
EventLoop(s, evs) == HandleEvents(s, evs, 1)

\* Mutant of LoopBody: the game logic also runs when the game is over.
LoopBody_NoGameOverGuard(s, pipe_height) ==
    IF ~s.start_screen THEN GameLogic(s, pipe_height) ELSE s

\* The rest of one iteration of `while running` (lines 137-168), from the
\* locals s the event loop left; pipe_height is the random height, used if
\* a pipe is spawned.
LoopBody(s, pipe_height) ==
    IF ~s.start_screen /\ ~s.game_over THEN GameLogic(s, pipe_height) ELSE s

EventSeqs == UNION {[1..n -> Events] : n \in 0..MaxEvents}

\* The inputs explored: at most MaxResets restarts, and SPACE during play
\* only in a frame whose spawn timer is in JumpSlots.
PlayerInput(s) ==
    /\ s.resets <= MaxResets
    /\ "jump" \in s.did => s.pipe_spawn_timer \in JumpSlots

\* The locals the event loop of this frame can leave.
AfterEvents == {s \in {EventLoop(Locals, evs) : evs \in EventSeqs} : PlayerInput(s)}

\* The frames explored: see MaxTicks and MaxReplayTicks.
Explored(s) ==
    s.session_ticks <= (IF s.resets = 0 THEN MaxTicks ELSE MaxReplayTicks)

Init ==
    /\ bird = Bird
    /\ pipes = reset_game.pipes
    /\ score = reset_game.score
    /\ game_over = reset_game.game_over
    /\ running = TRUE
    /\ start_screen = TRUE
    /\ pipe_spawn_timer = 0
    /\ did = {}
    /\ removed = <<>>
    /\ retired_passed = 0
    /\ nspawn = 0
    /\ session_ticks = 0
    /\ resets = 0

\* One iteration of `while running`: after_events is what the event loop
\* made of the locals.
Frame(after_events, pipe_height) ==
    /\ running
    /\ \E s \in {LoopBody(after_events, pipe_height)} :
           /\ Explored(s)
           /\ bird' = s.bird
           /\ pipes' = s.pipes
           /\ score' = s.score
           /\ game_over' = s.game_over
           /\ start_screen' = s.start_screen
           /\ pipe_spawn_timer' = s.pipe_spawn_timer
           /\ running' = s.running
           /\ did' = s.did
           /\ removed' = s.removed
           /\ retired_passed' = s.retired_passed
           /\ nspawn' = s.nspawn
           /\ session_ticks' = s.session_ticks
           /\ resets' = s.resets

\* random.randint is called only in a frame that spawns a pipe.
Draws == IF pipe_spawn_timer + 1 >= pipe_spawn_interval THEN PipeHeights ELSE {0}

Next == \E after_events \in AfterEvents, pipe_height \in Draws : Frame(after_events, pipe_height)

Spec == Init /\ [][Next]_vars

\* ------------------------------------------------------------------ claims
Phase ==
    IF start_screen THEN "StartScreen" ELSE IF game_over THEN "GameOver" ELSE "Playing"

PipeSet == {pipes[k] : k \in 1..Len(pipes)}
RemovedSet == {removed[k] : k \in 1..Len(removed)}
GroundLine == SCREEN_HEIGHT - GROUND_HEIGHT

\* Two rectangles share area (touching edges do not count).
Overlap(a, b) ==
    a.x < b.x + b.w /\ b.x < a.x + a.w /\ a.y < b.y + b.h /\ b.y < a.y + a.h
\* Two rectangles share area or touch along an edge.
OverlapOrTouch(a, b) ==
    a.x <= b.x + b.w /\ b.x <= a.x + a.w /\ a.y <= b.y + b.h /\ b.y <= a.y + a.h

\* C1: the phase starts as StartScreen; a frame changes it only from
\* StartScreen to Playing (and only when it handled SPACE on the start
\* screen), from Playing to GameOver (and only when the ground or the pipe
\* check of that frame fired), or from GameOver to Playing (and only when it
\* handled SPACE by reset_game); StartScreen is never re-entered and the game
\* logic never runs in a frame that ends on the start screen or began and
\* stayed in GameOver.
C1_Step ==
    /\ Phase' = "StartScreen" => Phase = "StartScreen" /\ "tick" \notin did'
    /\ (Phase = "StartScreen" /\ Phase' # "StartScreen")
          => Phase' = "Playing" /\ "start" \in did'
    /\ (Phase = "Playing" /\ Phase' # "Playing")
          => Phase' = "GameOver" /\ did' \cap {"ground", "pipe"} # {}
    /\ (Phase = "GameOver" /\ Phase' # "GameOver")
          => Phase' = "Playing" /\ "reset" \in did'
    /\ (Phase \in {"StartScreen", "GameOver"} /\ did' \cap {"start", "reset"} = {})
          => Phase' = Phase /\ "tick" \notin did'
C1_PhaseTransitions == Phase = "StartScreen" /\ [][C1_Step]_vars
C1_Witness == resets = 1 /\ Phase = "GameOver"

\* C2: a frame that begins on the start screen or in GameOver and handles no
\* SPACE (neither the start nor the reset branch ran) leaves the bird, the
\* pipes, the score and the spawn timer as they were, and no frame that
\* begins in GameOver and does not restart changes the bird's velocity; the
\* SPACE that leaves the start screen does not make the bird jump.
C2_Step ==
    /\ (Phase \in {"StartScreen", "GameOver"} /\ did' \cap {"start", "reset"} = {})
          => UNCHANGED <<bird, pipes, score, pipe_spawn_timer>>
    /\ (Phase = "GameOver" /\ "reset" \notin did') => bird'.velocity = bird.velocity
    /\ (Phase = "StartScreen" /\ "start" \in did' /\ "jump" \notin did')
          => bird'.velocity = bird.velocity + BIRD_GRAVITY
C2_IdleFrame == [][C2_Step]_vars
C2_Witness == Phase = "GameOver" /\ did = {} /\ bird.velocity # 0 /\ pipes # <<>>

\* C3: in every reachable GameOver state, handling SPACE (reset_game and
\* line 135) yields score 0, no pipes, phase Playing and a 30x30 bird whose
\* centre is (SCREEN_WIDTH \div 4, SCREEN_HEIGHT \div 2) with velocity 0; the
\* frame that did so ends, one game-logic step later, with score 0 in Playing.
C3_Reset ==
    /\ Phase = "GameOver" =>
          LET s == HandleEvent(Locals, "SPACE")
          IN  /\ s.score = 0
              /\ s.pipes = <<>>
              /\ ~s.game_over /\ ~s.start_screen
              /\ s.bird.rect.x + s.bird.rect.w \div 2 = SCREEN_WIDTH \div 4
              /\ s.bird.rect.y + s.bird.rect.h \div 2 = SCREEN_HEIGHT \div 2
              /\ s.bird.rect.w = BIRD_SIZE /\ s.bird.rect.h = BIRD_SIZE
              /\ s.bird.velocity = 0
    /\ "reset" \in did => score = 0 /\ Phase = "Playing" /\ session_ticks = 1
C3_Witness == "reset" \in did /\ resets = 1

\* C4 (as claimed): in every session the spawn timer counts the session's
\* game-logic frames modulo 90, so the first pipe of the session is created
\* in its 90th frame.
C4_FirstSpawnAt90 ==
    Phase # "StartScreen" =>
        /\ pipe_spawn_timer = session_ticks % pipe_spawn_interval
        /\ nspawn = session_ticks \div pipe_spawn_interval

\* C5: a pipe's passed flag never goes back to False; it becomes True only
\* in a frame that ends with the pipe's right edge strictly left of the
\* bird's x, and the score rises in that frame by exactly the number of
\* pipes whose flag became True (by 1 for one pipe).
After(p) == {q \in PipeSet' \cup RemovedSet' : q.id = p.id}
NewlyPassed == {p \in PipeSet : ~p.passed /\ \E q \in After(p) : q.passed}
C5_Step ==
    "reset" \notin did' =>
        /\ \A p \in PipeSet :
              /\ After(p) # {}
              /\ \A q \in After(p) :
                    /\ p.passed => q.passed
                    /\ (~p.passed /\ q.passed) =>
                          /\ q.x + PIPE_WIDTH < bird'.rect.x
                          /\ "score" \in did'
        /\ \A q \in PipeSet' \cup RemovedSet' :
              (\A p \in PipeSet : p.id # q.id) => ~q.passed
        /\ score' = score + Cardinality(NewlyPassed)
        /\ Cardinality(NewlyPassed) <= 1
C5_ScoredOnce == [][C5_Step]_vars
C5_Witness == "score" \in did /\ score = 2

\* C6: the score is the number of pipes of the session, removed ones
\* included, whose passed flag is True, and within a session it never
\* decreases.
C6_Count == score = Cardinality({p \in PipeSet : p.passed}) + retired_passed
C6_ScoreIsCount == [](C6_Count) /\ [][("reset" \notin did') => score' >= score]_vars
C6_Witness == retired_passed >= 1 /\ score >= 2

C8_Ground ==
    /\ Bottom(bird.rect) <= GroundLine
    /\ Phase = "Playing" => Bottom(bird.rect) < GroundLine
    /\ "ground" \in did => game_over /\ Bottom(bird.rect) = GroundLine
    /\ ("tick" \in did /\ "ground" \notin did) => Bottom(bird.rect) < GroundLine
C8_Witness == "ground" \in did

\* C9: the list never holds a pipe that is off screen (x + PIPE_WIDTH < 0);
\* a pipe is removed in the very frame in which it goes off screen, and
\* only such pipes are removed by the game logic.
C9_NoOffScreen ==
    /\ \A p \in PipeSet : p.x + PIPE_WIDTH >= 0
    /\ \A p \in RemovedSet : /\ p.x + PIPE_WIDTH < 0
                             /\ p.x + PIPE_SPEED + PIPE_WIDTH >= 0
                             /\ \A q \in PipeSet : q.id # p.id
C9_Witness == removed # <<>> /\ pipes # <<>>

\* C10 (as claimed): a pipe created at x = 1000 has x = -2 after 334
\* updates and is then off screen.
C10_OffAt334 ==
    \A p \in PipeSet \cup RemovedSet : p.age = 334 => p.x = -2 /\ off_screen(p)
\* C10 (amended): after 334 updates x = -2 and the pipe is still on screen
\* (-2 + 50 >= 0); it goes off screen with the 351st update, at x = -53.
C10_OffAt351 ==
    \A p \in PipeSet \cup RemovedSet :
        /\ p.x = SCREEN_WIDTH - PIPE_SPEED * p.age
        /\ p.age = 334 => p.x = -2 /\ ~off_screen(p) /\ p \in PipeSet
        /\ off_screen(p) <=> p.age >= 351
        /\ p \in RemovedSet => p.age = 351 /\ p.x = -53
C10_Witness == \E p \in PipeSet : p.age = 334

\* The bird the event loop of the frame just taken handed to the game logic:
\* its velocity (in halves) and its rect.y.
PriorVelocity ==
    IF "jump" \in did' THEN BIRD_JUMP_STRENGTH
    ELSE IF "reset" \in did' THEN 0 ELSE bird.velocity
PriorY ==
    IF "reset" \in did' THEN SCREEN_HEIGHT \div 2 - BIRD_SIZE \div 2 ELSE bird.rect.y

\* C11: in every game-logic frame the bird's velocity after Bird.update is
\* the prior velocity plus BIRD_GRAVITY, unless the top edge the rectangle
\* then holds (prior y plus the new velocity, stored as an int) is below 0,
\* in which case the velocity is 0 and the top edge is 0.
C11_Step ==
    "tick" \in did' =>
        LET v == PriorVelocity + BIRD_GRAVITY
            top == ToInt(2 * PriorY + v)
        IN  IF top < 0
            THEN bird'.velocity = 0 /\ Top(bird'.rect) = 0
            ELSE bird'.velocity = v
C12_HalfPixel ==
    (session_ticks = 1 /\ "jump" \notin did) =>
        /\ bird.velocity = BIRD_GRAVITY
        /\ 2 * bird.rect.y = 2 * (SCREEN_HEIGHT \div 2 - BIRD_SIZE \div 2) + BIRD_GRAVITY

\* C13: in every reachable Playing state, handling SPACE (Bird.jump) sets
\* the velocity to BIRD_JUMP_STRENGTH whatever it was, leaves the rectangle
\* and every other local as they are, and a second SPACE changes nothing
\* more; a frame that jumped ends, after its Bird.update, with velocity
\* BIRD_JUMP_STRENGTH + BIRD_GRAVITY (or stopped at the ceiling).
C13_Jump ==
    /\ Phase = "Playing" =>
          LET s0 == Locals
              s1 == HandleEvent(s0, "SPACE")
              s2 == HandleEvent(s1, "SPACE")
          IN  /\ s1.bird.velocity = BIRD_JUMP_STRENGTH
              /\ s1.bird.rect = s0.bird.rect
              /\ [s1 EXCEPT !.bird = s0.bird, !.did = s0.did] = s0
              /\ s2 = s1
    /\ "jump" \in did =>
          \/ bird.velocity = BIRD_JUMP_STRENGTH + BIRD_GRAVITY
          \/ bird.velocity = 0 /\ Top(bird.rect) = 0
C13_Witness ==
    "jump" \in did /\ bird.velocity = BIRD_JUMP_STRENGTH + BIRD_GRAVITY /\ session_ticks > 1

\* C14: the bird's rectangle always has the x (and the size) it was created
\* with, and its top edge is never above the top of the screen.
C14_BirdX ==
    /\ bird.rect.x = SCREEN_WIDTH \div 4 - BIRD_SIZE \div 2
    /\ bird.rect.w = BIRD_SIZE /\ bird.rect.h = BIRD_SIZE
    /\ Top(bird.rect) >= 0
C14_Witness ==
    /\ "tick" \in did /\ "jump" \notin did /\ "ground" \notin did
    /\ Top(bird.rect) = 0 /\ bird.velocity = 0
    /\ bird.rect.x = SCREEN_WIDTH \div 4 - BIRD_SIZE \div 2

\* C15: the spawn timer changes only in a game-logic frame, where it goes
\* up by one and, on reaching 90, back to 0; a pipe is created (one, at the
\* end of the list, at x = SCREEN_WIDTH before its first update) in exactly
\* those frames; so the timer is always in 0..89 and two pipes created one
\* after the other in a session are 90 game-logic frames apart.
C15_Step ==
    /\ "tick" \notin did' => pipe_spawn_timer' = pipe_spawn_timer /\ pipes' = pipes
    /\ "tick" \in did' =>
          LET due == pipe_spawn_timer + 1 = 90
              before == IF "reset" \in did' THEN 0 ELSE nspawn
          IN  /\ pipe_spawn_timer' = IF due THEN 0 ELSE pipe_spawn_timer + 1
              /\ nspawn' = IF due THEN before + 1 ELSE before
              /\ due <=> \E p \in PipeSet' : p.age = 1
              /\ due => /\ pipes' # <<>>
                        /\ pipes'[Len(pipes')].id = nspawn'
                        /\ pipes'[Len(pipes')].age = 1
                        /\ pipes'[Len(pipes')].x = SCREEN_WIDTH - PIPE_SPEED
C15_State ==
    /\ pipe_spawn_timer \in 0..89
    /\ \A p \in PipeSet : p.age >= 1 /\ p.id \in 1..nspawn
    /\ \A p, q \in PipeSet : q.id = p.id + 1 => p.age = q.age + 90
    /\ \A p \in PipeSet : (p.age - 1) % 90 = pipe_spawn_timer
C15_SpawnCadence == [](C15_State) /\ [][C15_Step]_vars
C15_Witness == "spawn" \in did /\ nspawn = 2 /\ Len(pipes) = 2

\* C16: every pipe has its gap top (height) in 100..250; its top rectangle
\* runs from 0 to height and its bottom rectangle from height + 150 to the
\* ground line 500, both at least 100 high and as wide as the pipe, at the
\* pipe's x; this holds for every height random.randint can return; and a
\* frame changes nothing of a pipe but its x (by PIPE_SPEED, both rectangles
\* with it).
Geometry(p) ==
    /\ p.height \in 100..250
    /\ Top(p.top_rect) = 0 /\ Bottom(p.top_rect) = p.height
    /\ p.top_rect.h >= 100
    /\ Top(p.bottom_rect) - Bottom(p.top_rect) = 150
    /\ Bottom(p.bottom_rect) = 500
    /\ p.bottom_rect.h >= 100
    /\ p.top_rect.w = PIPE_WIDTH /\ p.bottom_rect.w = PIPE_WIDTH
    /\ p.top_rect.x = p.x /\ p.bottom_rect.x = p.x
C16_State ==
    /\ \A p \in PipeSet \cup RemovedSet : Geometry(p)
    /\ "spawn" \in did =>
          \A h \in HeightRange : /\ Geometry(Pipe(SCREEN_WIDTH, h, nspawn))
                                 /\ Geometry(PipeUpdate(Pipe(SCREEN_WIDTH, h, nspawn)))
    /\ PipeHeights \subseteq HeightRange /\ HeightRange = 100..250
C16_Step ==
    "reset" \notin did' =>
        \A p \in PipeSet : \A q \in After(p) :
            /\ q.height = p.height
            /\ q.top_rect.y = p.top_rect.y /\ q.top_rect.h = p.top_rect.h
            /\ q.bottom_rect.y = p.bottom_rect.y /\ q.bottom_rect.h = p.bottom_rect.h
            /\ q.top_rect.w = p.top_rect.w /\ q.bottom_rect.w = p.bottom_rect.w
            /\ "tick" \in did' => q.x = p.x - PIPE_SPEED
            /\ "tick" \notin did' => q.x = p.x
C16_PipeGeometry == [](C16_State) /\ [][C16_Step]_vars
C16_Witness ==
    \E p, q \in PipeSet : p.height = 100 /\ q.height = 250 /\ p.age > 90 /\ q.age > 1

\* C17: the pipe list is ordered left to right in insertion order (an earlier
\* pipe has the strictly smaller x and the smaller serial number), consecutive
\* pipes are exactly PIPE_SPEED * 90 = 270 apart, and a game-logic frame moves
\* every pipe it keeps by the same amount.
C17_State ==
    /\ \A i, j \in 1..Len(pipes) :
          i < j => pipes[i].x < pipes[j].x /\ pipes[i].id < pipes[j].id
    /\ \A i \in 1..(Len(pipes) - 1) : pipes[i + 1].x - pipes[i].x = 270
    /\ PIPE_SPEED * pipe_spawn_interval = 270
C17_Step ==
    "reset" \notin did' =>
        \A p \in PipeSet : \A q \in After(p) :
            q.x - p.x = (IF "tick" \in did' THEN 0 - PIPE_SPEED ELSE 0)
C17_Ordered == [](C17_State) /\ [][C17_Step]_vars
C17_Witness ==
    /\ Len(pipes) >= 3 /\ "tick" \in did
    /\ pipes[1].x < pipes[2].x /\ pipes[2].x < pipes[3].x
    /\ pipes[3].x - pipes[1].x = 540

\* C18: the interleaved loop of lines 149-157 gives, from the locals of
\* every reachable playing frame, the same pipe list, passed flags and score
\* as the two-phase order (advance all, keep those not off screen, score the
\* kept ones); equivalently, a pipe is passed before the frame that removes
\* it.
OnScreen(p) == ~off_screen(p)
TwoPhase(s) ==
    LET advanced == [k \in 1..Len(s.pipes) |-> PipeUpdate(s.pipes[k])]
        kept == SelectSeq(advanced, OnScreen)
        scoring == {k \in 1..Len(kept) : Scores(kept[k], s.bird)}
    IN  [pipes |-> [k \in 1..Len(kept) |->
                      IF k \in scoring THEN [kept[k] EXCEPT !.passed = TRUE]
                      ELSE kept[k]],
         score |-> s.score + Cardinality(scoring)]
C18_TwoPhase ==
    /\ \A ae \in AfterEvents : \A h \in Draws :
          (~ae.start_screen /\ ~ae.game_over) =>
              LET s1 == [ae EXCEPT !.bird = BirdUpdate(ae.bird)]
                  s2 == SpawnPipes(s1, h)
                  interleaved == UpdatePipes(s2, s2.pipes, 1)
                  phased == TwoPhase(s2)
              IN  /\ interleaved.pipes = phased.pipes
                  /\ interleaved.score = phased.score
    /\ \A p \in RemovedSet : p.passed
    /\ \A p \in PipeSet : off_screen(PipeUpdate(p)) => p.passed
C18_Witness ==
    /\ "tick" \in did /\ Len(removed) = 1 /\ removed[1].passed
    /\ retired_passed >= 1 /\ score >= 1
    /\ Len(pipes) >= 1 /\ pipes[1].id = removed[1].id + 1

\* C19: without a jump a playing game ends after finitely many ticks. In
\* finite-run form: every frame taken from a Playing state runs the game
\* logic, and unless a jump is issued in it the velocity grows by at least
\* one half pixel per frame; a Playing state has a velocity of -15 .. 43
\* half pixels per frame; so no more than 59 frames without a jump in a row
\* start in a Playing state, the next one ends in GameOver.
C19_State ==
    Phase = "Playing" =>
        /\ bird.velocity >= BIRD_JUMP_STRENGTH + BIRD_GRAVITY
        /\ bird.velocity <= 43
        /\ Bottom(bird.rect) < GroundLine
C19_Step ==
    Phase = "Playing" =>
        /\ "tick" \in did' /\ "reset" \notin did'
        /\ session_ticks' = session_ticks + 1
        /\ "jump" \notin did' =>
              /\ bird'.velocity >= bird.velocity + BIRD_GRAVITY
              /\ bird'.rect.y >= bird.rect.y \/ bird.velocity < 0
C19_GravityEndsGame == [](C19_State) /\ [][C19_Step]_vars
C19_Witness ==
    /\ Phase = "GameOver" /\ "ground" \in did /\ "jump" \notin did
    /\ bird.velocity = 44 /\ session_ticks > 44

\* C20: the pipe list never holds more than 4 pipes, and one frame scores at
\* most one pipe: the score rises by at most 1 per frame.
C20_State == Len(pipes) <= 4 /\ Cardinality(PipeSet) = Len(pipes)
C20_Step ==
    /\ score' <= score + 1
    /\ "reset" \notin did' =>
          /\ score' >= score
          /\ Cardinality({p \in PipeSet : ~p.passed /\ \E q \in After(p) : q.passed}) <= 1
          /\ "score" \in did' <=> score' = score + 1
C20_Bounds == [](C20_State) /\ [][C20_Step]_vars
C20_Witness == Len(pipes) = 4 /\ score >= 1 /\ "tick" \in did

====
